---- MODULE Spec2Model ----
(***************************************************************************)
(* QueuedAsyncFramework (src/src/framework/queued_async.rs) and the retry  *)
(* budget (src/src/framework/state.rs, src/src/env.rs).                    *)
(*                                                                         *)
(* A submission is one call of run / run_with_name.  Submissions are       *)
(* numbered 1..MaxSubs in the order in which they execute lines 113-114    *)
(* (registry lookup and fetch_add), so submission s+1 enters only after    *)
(* submission s has.  The calls run on a multi-threaded executor: every    *)
(* atomic operation of run_with_name is a step of its own and the steps    *)
(* of different submissions interleave freely.                             *)
(*                                                                         *)
(* A Holder (Arc<BusinessHolder>) is named by the submission that created  *)
(* it; 0 stands for "no holder".  Keys are opaque (Eq + Hash), so a        *)
(* behaviour and its image under a renaming of the keys are the same: key  *)
(* "B" is used only after key "A" has an entry.                            *)
(*                                                                         *)
(* The pre-made transactions (src/src/transactions) are modelled as one    *)
(* call each, from its inputs (what the network and the archive give) to   *)
(* the outcome it returns: SpecFetch and SpecArchive.                      *)
(***************************************************************************)
EXTENDS Naturals, Integers, Sequences, FiniteSets

\* ---------------------------------------------------------------- bounds
MaxSubs == 3            \* submissions (calls of run) in one behaviour
MaxRetryLimit == 1      \* Spec draws MAX_RETRIES from 0..MaxRetryLimit
MaxInvocations == 258   \* cap on the ghost count of work invocations of one call
MaxCount == 3           \* SpecFetch draws artifact counts from 0..MaxCount

\* ------------------------------------------------------ program constants
U8 == 256               \* AtomicU8 / u8: values 0..255

Sub == 1..MaxSubs
Key == {"A", "B"}
NoHolder == 0
Callers == {1, 2}       \* the submissions of SpecWrap

VARIABLES
    overflow_checks,       \* build profile: TRUE = overflow panics (debug), FALSE = wraps (release)
    MAX_RETRIES,           \* env::MAX_RETRIES, fixed at first use
    businesses,            \* Key -> holder (0: no entry)
    latest_payload_index,  \* holder -> u8
    lockOwner,             \* holder -> submission holding the MutexGuard (0: unlocked)
    lockWaiters,           \* holder -> FIFO queue of submissions suspended in lock().await
    pc,                    \* submission -> position in run_with_name
    id,                    \* submission -> key passed to run
    holder,                \* submission -> the Arc<BusinessHolder> it cloned
    index,                 \* submission -> context.index
    retry,                 \* submission -> the local `retry: u8`
    result,                \* submission -> what run returned
    invocations,           \* ghost: number of times f(context.clone()) was called by this call
    arrival,               \* ghost: holder -> the unfinished calls in the order of their lock() calls
    fetch,                 \* one call of fetch_artifacts / fetch_artifact: inputs, stage, outcome
    archive                \* one call of download_and_extract_archive: inputs, stage, outcome

vars == <<overflow_checks, MAX_RETRIES, businesses, latest_payload_index, lockOwner,
          lockWaiters, pc, id, holder, index, retry, result, invocations, arrival,
          fetch, archive>>

\* The variables of the framework / of the transactions.
framework == <<overflow_checks, MAX_RETRIES, businesses, latest_payload_index, lockOwner,
               lockWaiters, pc, id, holder, index, retry, result, invocations, arrival>>
transactions == <<fetch, archive>>

\* Option<T>: None is <<>>, Some(x) is <<x>>.
Option(T) == {<<>>} \cup {<<x>> : x \in T}

\* --------------------------------------------------------- pure functions

\* u8 subtraction `a - b`: panics when overflow checks are on, wraps otherwise.
U8Sub(a, b, oc) ==
    IF a >= b THEN [panic |-> FALSE, val |-> a - b]
    ELSE IF oc THEN [panic |-> TRUE, val |-> 0]
    ELSE [panic |-> FALSE, val |-> (a - b) + U8]

\* u8 addition `a + b` (`*retry += 1`): panics when overflow checks are on, wraps otherwise.
U8Add(a, b, oc) ==
    IF a + b < U8 THEN [panic |-> FALSE, val |-> a + b]
    ELSE IF oc THEN [panic |-> TRUE, val |-> 0]
    ELSE [panic |-> FALSE, val |-> (a + b) % U8]

\* AtomicU8::fetch_add(1): always wraps.
FetchAdd(v) == (v + 1) % U8

\* QueuedAsyncFrameworkContext::check: "Ok", "Cancelled", or "Panic".
check(idx, latest, oc) ==
    LET d == U8Sub(latest, 1, oc)
    IN  IF d.panic THEN "Panic"
        ELSE IF idx < d.val THEN "Cancelled"
        ELSE "Ok"

\* retry_if_possible(&mut retry): the new counter and Ok / ExceededMaxRetries / Panic.
retry_if_possible(r, max, oc) ==
    LET s == U8Add(r, 1, oc)
    IN  IF s.panic THEN [retry |-> r, res |-> "Panic"]
        ELSE IF s.val > max THEN [retry |-> s.val, res |-> "ExceededMaxRetries"]
        ELSE [retry |-> s.val, res |-> "Ok"]

\* Mutant of OnRetry: an exhausted budget is reported as a cancellation.
OnRetryCancelled(res) ==
    IF res = "Ok" THEN "continue"
    ELSE IF res = "Panic" THEN "Panic"
    ELSE "Cancelled"

\* Lines 134-140: what the loop does with retry_if_possible's answer: "continue",
\* the error it returns, or "Panic".
OnRetry(res) ==
    IF res = "Ok" THEN "continue"
    ELSE IF res = "Panic" THEN "Panic"
    ELSE "Retry"

\* fetch_artifacts(owner, repo, run_id, count): the outcome, from what the request
\* gives.  sent: send().await is Ok(response) (sent.ok) or Err(err) with
\* err.is_connect() and err.is_timeout(); parsed: response.json::<Artifacts>() is
\* Ok; total_count: the field of the parsed body.
fetch_artifacts(count, sent, parsed, total_count) ==
    IF ~sent.ok
    THEN IF sent.is_connect \/ sent.is_timeout THEN "Retry" ELSE "Cancelled"
    ELSE IF ~parsed THEN "Retry"
    ELSE IF total_count = 0 THEN "Cancelled"
    ELSE IF count = <<>> THEN "Success"
    ELSE IF total_count < count[1] THEN "Cancelled"
    ELSE IF total_count > count[1] THEN "Cancelled"
    ELSE "Success"

\* fetch_artifact: fetch_artifacts with Some(1), then `artifacts[0].clone()` on the
\* list of the parsed body (of length `artifacts`), which panics on an empty list.
fetch_artifact(sent, parsed, total_count, artifacts) ==
    LET r == fetch_artifacts(<<1>>, sent, parsed, total_count)
    IN  IF r = "Success" /\ artifacts = 0 THEN "Panic" ELSE r

\* The values of a digest (the hex digits after "sha256:").
Hash == {"h1", "h2"}

\* workflow::artifact::download_artifact: a State, from the result of send():
\* Ok(resp) (request.ok) or Err(err) with err.status().
download_artifact(request) ==
    IF request.ok THEN "Success"
    ELSE IF request.status = <<"GONE">> THEN "Stop"
    ELSE "Retry"

\* extract: the Case, from the result of extract_archive (extracted), the
\* artifact's digest and the hash computed over the downloaded bytes.
extract(extracted, digest, computed) ==
    IF extracted
    THEN IF digest # <<>>
         THEN IF computed = digest[1] THEN "Extracted" ELSE "HashUnmatch"
         ELSE "Extracted"
    ELSE "Failed"

\* ------------------------------------------------------------------ state

\* No call of fetch_artifacts / of download_and_extract_archive.
NoFetch ==
    [stage |-> "none", count |-> <<>>,
     sent |-> [ok |-> TRUE, is_connect |-> FALSE, is_timeout |-> FALSE],
     parsed |-> TRUE, total_count |-> 0, artifacts |-> 0, outcome |-> "-"]

NoArchive ==
    [stage |-> "none", request |-> [ok |-> TRUE, status |-> <<>>], extracted |-> TRUE,
     digest |-> <<>>, computed |-> "h1", dir |-> "absent", case |-> "-",
     outcome |-> "-"]

\* The calls of fetch_artifacts / fetch_artifact at their start, on every input.
FetchCalls ==
    [stage : {"called"}, count : Option(0..MaxCount),
     sent : [ok : BOOLEAN, is_connect : BOOLEAN, is_timeout : BOOLEAN],
     parsed : BOOLEAN, total_count : 0..MaxCount, artifacts : 0..MaxCount,
     outcome : {"-"}]

\* The calls of download_and_extract_archive at their start, on every input; the
\* target path is absent or holds an earlier extraction.
ArchiveCalls ==
    [stage : {"called"}, request : [ok : BOOLEAN, status : Option({"GONE", "OTHER"})],
     extracted : BOOLEAN, digest : Option(Hash), computed : Hash,
     dir : {"absent", "stale"}, case : {"-"}, outcome : {"-"}]

TypeOK ==
    /\ overflow_checks \in BOOLEAN
    /\ MAX_RETRIES \in 0..(U8 - 1)
    /\ businesses \in [Key -> Sub \cup {NoHolder}]
    /\ latest_payload_index \in [Sub -> 0..(U8 - 1)]
    /\ lockOwner \in [Sub -> Sub \cup {0}]
    /\ lockWaiters \in [Sub -> Seq(Sub)]
    /\ pc \in [Sub -> {"idle", "bumped", "waiting", "locked", "work", "accepted",
                       "stored", "done", "panicked"}]
    /\ id \in [Sub -> Key \cup {"-"}]
    /\ holder \in [Sub -> Sub \cup {NoHolder}]
    /\ index \in [Sub -> 0..(U8 - 1)]
    /\ retry \in [Sub -> 0..(U8 - 1)]
    /\ result \in [Sub -> {"-", "Ok", "Retry", "Cancelled"}]
    /\ invocations \in [Sub -> 0..MaxInvocations]
    /\ arrival \in [Sub -> Seq(Sub)]
    /\ fetch.stage \in {"none", "called", "returned"}
    /\ fetch.outcome \in {"-", "Success", "Retry", "Cancelled", "Panic"}
    /\ archive.stage \in {"none", "called", "streaming", "extracted", "cleaned", "returned"}
    /\ archive.dir \in {"absent", "stale", "partial", "complete"}
    /\ archive.case \in {"-", "Extracted", "Failed", "HashUnmatch"}
    /\ archive.outcome \in {"-", "Success", "Retry", "Stop"}

\* QueuedAsyncFramework::new(): an empty registry; no call has started.
InitState ==
    /\ overflow_checks \in BOOLEAN
    /\ businesses = [k \in Key |-> NoHolder]
    /\ latest_payload_index = [h \in Sub |-> 0]
    /\ lockOwner = [h \in Sub |-> 0]
    /\ lockWaiters = [h \in Sub |-> <<>>]
    /\ pc = [s \in Sub |-> "idle"]
    /\ id = [s \in Sub |-> "-"]
    /\ holder = [s \in Sub |-> NoHolder]
    /\ index = [s \in Sub |-> 0]
    /\ retry = [s \in Sub |-> 0]
    /\ result = [s \in Sub |-> "-"]
    /\ invocations = [s \in Sub |-> 0]
    /\ arrival = [h \in Sub |-> <<>>]

Init ==
    /\ InitState
    /\ MAX_RETRIES \in 0..MaxRetryLimit
    /\ fetch = NoFetch
    /\ archive = NoArchive

\* ---------------------------------------------------------------- actions

\* Mutant of Submit: `insert(id, Default::default())` instead of `or_default()`: every
\* submission registers a fresh holder in place of the key's entry.
SubmitFresh(s, k) ==
    /\ pc[s] = "idle"
    /\ IF s = 1 THEN TRUE ELSE pc[s - 1] # "idle"
    /\ k = "A" \/ businesses["A"] # NoHolder
    /\ businesses' = [businesses EXCEPT ![k] = s]
    /\ holder' = [holder EXCEPT ![s] = s]
    /\ index' = [index EXCEPT ![s] = latest_payload_index[s]]
    /\ latest_payload_index' =
           [latest_payload_index EXCEPT ![s] = FetchAdd(latest_payload_index[s])]
    /\ id' = [id EXCEPT ![s] = k]
    /\ retry' = [retry EXCEPT ![s] = 0]
    /\ pc' = [pc EXCEPT ![s] = "bumped"]
    /\ UNCHANGED <<transactions, overflow_checks, MAX_RETRIES, lockOwner, lockWaiters, result,
                   invocations, arrival>>

\* Mutant of Submit: one holder for the whole framework: every key is given the
\* holder of the first key registered.
SubmitOneHolder(s, k) ==
    /\ pc[s] = "idle"
    /\ IF s = 1 THEN TRUE ELSE pc[s - 1] # "idle"
    /\ k = "A" \/ businesses["A"] # NoHolder
    /\ LET h == IF businesses["A"] = NoHolder THEN s ELSE businesses["A"]
       IN  /\ businesses' = [businesses EXCEPT ![k] = h]
           /\ holder' = [holder EXCEPT ![s] = h]
           /\ index' = [index EXCEPT ![s] = latest_payload_index[h]]
           /\ latest_payload_index' =
                  [latest_payload_index EXCEPT ![h] = FetchAdd(latest_payload_index[h])]
    /\ id' = [id EXCEPT ![s] = k]
    /\ retry' = [retry EXCEPT ![s] = 0]
    /\ pc' = [pc EXCEPT ![s] = "bumped"]
    /\ UNCHANGED <<transactions, overflow_checks, MAX_RETRIES, lockOwner, lockWaiters,
                   result, invocations, arrival>>

\* Lines 113-122: businesses.lock().entry(id).or_default().clone(), then
\* fetch_add(1), the context, and `retry = 0`.
Submit(s, k) ==
    /\ pc[s] = "idle"
    /\ IF s = 1 THEN TRUE ELSE pc[s - 1] # "idle"
    /\ k = "A" \/ businesses["A"] # NoHolder
    /\ LET h == IF businesses[k] = NoHolder THEN s ELSE businesses[k]
       IN  /\ businesses' = [businesses EXCEPT ![k] = h]
           /\ holder' = [holder EXCEPT ![s] = h]
           /\ index' = [index EXCEPT ![s] = latest_payload_index[h]]
           /\ latest_payload_index' =
                  [latest_payload_index EXCEPT ![h] = FetchAdd(latest_payload_index[h])]
    /\ id' = [id EXCEPT ![s] = k]
    /\ retry' = [retry EXCEPT ![s] = 0]
    /\ pc' = [pc EXCEPT ![s] = "bumped"]
    /\ UNCHANGED <<transactions, overflow_checks, MAX_RETRIES, lockOwner, lockWaiters, result,
                   invocations, arrival>>

\* Mutant of LockRequest: a newer call aborts the work in flight for its key and
\* takes the lock over.
LockRequestPreempt(s) ==
    /\ pc[s] = "bumped"
    /\ LET h == holder[s]
           o == lockOwner[h]
       IN  IF o = 0 /\ lockWaiters[h] = <<>>
           THEN /\ lockOwner' = [lockOwner EXCEPT ![h] = s]
                /\ pc' = [pc EXCEPT ![s] = "locked"]
                /\ arrival' = [arrival EXCEPT ![h] = Append(@, s)]
                /\ UNCHANGED <<lockWaiters, result>>
           ELSE IF o # 0 /\ pc[o] = "work"
           THEN /\ lockOwner' = [lockOwner EXCEPT ![h] = s]
                /\ pc' = [pc EXCEPT ![s] = "locked", ![o] = "done"]
                /\ result' = [result EXCEPT ![o] = "Cancelled"]
                /\ arrival' = [arrival EXCEPT
                                  ![h] = Append(SelectSeq(@, LAMBDA x : x # o), s)]
                /\ UNCHANGED lockWaiters
           ELSE /\ lockWaiters' = [lockWaiters EXCEPT ![h] = Append(@, s)]
                /\ pc' = [pc EXCEPT ![s] = "waiting"]
                /\ arrival' = [arrival EXCEPT ![h] = Append(@, s)]
                /\ UNCHANGED <<lockOwner, result>>
    /\ UNCHANGED <<transactions, overflow_checks, MAX_RETRIES, businesses, latest_payload_index, id,
                   holder, index, retry, invocations>>

\* Mutant of LockRequest: the guard is not kept (`let _ = holder.lock.lock().await`),
\* so the call goes on without holding the lock.
LockRequestNoGuard(s) ==
    /\ pc[s] = "bumped"
    /\ pc' = [pc EXCEPT ![s] = "locked"]
    /\ arrival' = [arrival EXCEPT ![holder[s]] = Append(@, s)]
    /\ UNCHANGED <<transactions, overflow_checks, MAX_RETRIES, businesses, latest_payload_index, id,
                   holder, index, retry, result, invocations, lockOwner, lockWaiters>>

\* Line 123: holder.lock.lock().await.  tokio's Mutex is fair: the lock is taken at
\* once when it is free and nobody waits, otherwise the caller joins the FIFO queue.
LockRequest(s) ==
    /\ pc[s] = "bumped"
    /\ LET h == holder[s]
       IN  IF lockOwner[h] = 0 /\ lockWaiters[h] = <<>>
           THEN /\ lockOwner' = [lockOwner EXCEPT ![h] = s]
                /\ pc' = [pc EXCEPT ![s] = "locked"]
                /\ UNCHANGED lockWaiters
           ELSE /\ lockWaiters' = [lockWaiters EXCEPT ![h] = Append(@, s)]
                /\ pc' = [pc EXCEPT ![s] = "waiting"]
                /\ UNCHANGED lockOwner
    /\ arrival' = [arrival EXCEPT ![holder[s]] = Append(@, s)]
    /\ UNCHANGED <<transactions, overflow_checks, MAX_RETRIES, businesses, latest_payload_index, id,
                   holder, index, retry, result, invocations>>

\* Mutant of Unlock: the guard is leaked, the lock stays taken.
UnlockLeak(s, to) ==
    /\ pc' = [pc EXCEPT ![s] = to]
    /\ UNCHANGED <<lockOwner, lockWaiters>>

\* Mutant of Unlock: an unfair lock, which passes to the most recent waiter.
UnlockLifo(s, to) ==
    LET h == holder[s]
        n == Len(lockWaiters[h])
    IN  IF n = 0
        THEN /\ lockOwner' = [lockOwner EXCEPT ![h] = 0]
             /\ pc' = [pc EXCEPT ![s] = to]
             /\ UNCHANGED lockWaiters
        ELSE /\ lockOwner' = [lockOwner EXCEPT ![h] = lockWaiters[h][n]]
             /\ lockWaiters' = [lockWaiters EXCEPT ![h] = SubSeq(@, 1, n - 1)]
             /\ pc' = [pc EXCEPT ![s] = to, ![lockWaiters[h][n]] = "locked"]

\* `_guard` goes out of scope (a return, or unwinding from a panic): the lock passes
\* to the first waiter, which resumes at the top of the loop.  s moves to `to`.
Unlock(s, to) ==
    LET h == holder[s]
    IN  IF lockWaiters[h] = <<>>
        THEN /\ lockOwner' = [lockOwner EXCEPT ![h] = 0]
             /\ pc' = [pc EXCEPT ![s] = to]
             /\ UNCHANGED lockWaiters
        ELSE /\ lockOwner' = [lockOwner EXCEPT ![h] = Head(lockWaiters[h])]
             /\ lockWaiters' = [lockWaiters EXCEPT ![h] = Tail(@)]
             /\ pc' = [pc EXCEPT ![s] = to, ![Head(lockWaiters[h])] = "locked"]

\* run_with_name returns Err(e) / panics: lines 138, 143, or a panic in check.
Leave(s, res) ==
    /\ Unlock(s, IF res = "Panic" THEN "panicked" ELSE "done")
    /\ result' = [result EXCEPT ![s] = IF res = "Panic" THEN "-" ELSE res]
    /\ arrival' = [arrival EXCEPT ![holder[s]] = SelectSeq(@, LAMBDA x : x # s)]

\* Line 126: f(context.clone()) is called.
Invoke(s) ==
    /\ pc[s] = "locked"
    /\ invocations[s] < MaxInvocations
    /\ pc' = [pc EXCEPT ![s] = "work"]
    /\ invocations' = [invocations EXCEPT ![s] = @ + 1]
    /\ UNCHANGED <<transactions, overflow_checks, MAX_RETRIES, businesses, latest_payload_index,
                   lockOwner, lockWaiters, id, holder, index, retry, result, arrival>>

\* The work body runs `cx.check(())?` (line 170): on Ok it goes on (no state changes);
\* on Cancelled it returns Err(Cancelled), which run returns (lines 141-144); a panic
\* unwinds the call.
BodyCheck(s) ==
    /\ pc[s] = "work"
    /\ LET c == check(index[s], latest_payload_index[holder[s]], overflow_checks)
       IN  IF c = "Ok"
           THEN UNCHANGED <<pc, lockOwner, lockWaiters, result, arrival>>
           ELSE Leave(s, c)
    /\ UNCHANGED <<transactions, overflow_checks, MAX_RETRIES, businesses, latest_payload_index, id,
                   holder, index, retry, invocations>>

\* Mutant of WorkOk: the value is accepted without the framework's check.
WorkOkUnchecked(s) ==
    /\ pc[s] = "work"
    /\ pc' = [pc EXCEPT ![s] = "accepted"]
    /\ UNCHANGED <<transactions, overflow_checks, MAX_RETRIES, businesses, latest_payload_index, id,
                   holder, index, retry, invocations, lockOwner, lockWaiters, result,
                   arrival>>

\* Lines 126-133, first half: the work returns Ok(r) and `.and_then(|r| context.check(r))`
\* loads the counter.  A fresh result is accepted; a stale one is Err(Cancelled).
WorkOk(s) ==
    /\ pc[s] = "work"
    /\ LET c == check(index[s], latest_payload_index[holder[s]], overflow_checks)
       IN  IF c = "Ok"
           THEN /\ pc' = [pc EXCEPT ![s] = "accepted"]
                /\ UNCHANGED <<lockOwner, lockWaiters, result, arrival>>
           ELSE Leave(s, c)
    /\ UNCHANGED <<transactions, overflow_checks, MAX_RETRIES, businesses, latest_payload_index, id,
                   holder, index, retry, invocations>>

\* Mutant of WorkRetry: the guard is dropped before a retry and the call queues for
\* the lock again.
WorkRetryRelock(s) ==
    /\ pc[s] = "work"
    /\ LET r == retry_if_possible(retry[s], MAX_RETRIES, overflow_checks)
       IN  /\ retry' = [retry EXCEPT ![s] = r.retry]
           /\ IF OnRetry(r.res) = "continue"
              THEN /\ Unlock(s, "bumped")
                   /\ arrival' = [arrival EXCEPT ![holder[s]] = SelectSeq(@, LAMBDA x : x # s)]
                   /\ UNCHANGED result
              ELSE Leave(s, OnRetry(r.res))
    /\ UNCHANGED <<transactions, overflow_checks, MAX_RETRIES, businesses, latest_payload_index, id,
                   holder, index, invocations>>

\* Mutant of WorkRetry: the framework checks a Retry outcome for staleness too
\* (`.and_then` replaced by a check on every outcome).
WorkRetryChecked(s) ==
    /\ pc[s] = "work"
    /\ LET c == check(index[s], latest_payload_index[holder[s]], overflow_checks)
           r == retry_if_possible(retry[s], MAX_RETRIES, overflow_checks)
       IN  IF c # "Ok"
           THEN /\ Leave(s, c)
                /\ UNCHANGED retry
           ELSE /\ retry' = [retry EXCEPT ![s] = r.retry]
                /\ IF OnRetry(r.res) = "continue"
                   THEN /\ pc' = [pc EXCEPT ![s] = "locked"]
                        /\ UNCHANGED <<lockOwner, lockWaiters, result, arrival>>
                   ELSE Leave(s, OnRetry(r.res))
    /\ UNCHANGED <<transactions, overflow_checks, MAX_RETRIES, businesses,
                   latest_payload_index, id, holder, index, invocations>>

\* Lines 134-140: the work returns Err(Retry); retry_if_possible decides between
\* `continue` and `return Err(StateError::Retry)`.
WorkRetry(s) ==
    /\ pc[s] = "work"
    /\ LET r == retry_if_possible(retry[s], MAX_RETRIES, overflow_checks)
       IN  /\ retry' = [retry EXCEPT ![s] = r.retry]
           /\ IF OnRetry(r.res) = "continue"
              THEN /\ pc' = [pc EXCEPT ![s] = "locked"]
                   /\ UNCHANGED <<lockOwner, lockWaiters, result, arrival>>
              ELSE Leave(s, OnRetry(r.res))
    /\ UNCHANGED <<transactions, overflow_checks, MAX_RETRIES, businesses, latest_payload_index, id,
                   holder, index, invocations>>

\* Mutant of WorkCancelled: the counter is reset on a cancellation too.
WorkCancelledReset(s) ==
    /\ pc[s] = "work"
    /\ Leave(s, "Cancelled")
    /\ latest_payload_index' = [latest_payload_index EXCEPT ![holder[s]] = 0]
    /\ UNCHANGED <<transactions, overflow_checks, MAX_RETRIES, businesses, id,
                   holder, index, retry, invocations>>

\* Mutant of WorkCancelled: a cancellation is charged to the retry budget.
WorkCancelledCharged(s) ==
    /\ pc[s] = "work"
    /\ Leave(s, "Cancelled")
    /\ retry' = [retry EXCEPT ![s] = (@ + 1) % U8]
    /\ UNCHANGED <<transactions, overflow_checks, MAX_RETRIES, businesses, latest_payload_index, id,
                   holder, index, invocations>>

\* Lines 141-144: the work returns Err(Cancelled).
WorkCancelled(s) ==
    /\ pc[s] = "work"
    /\ Leave(s, "Cancelled")
    /\ UNCHANGED <<transactions, overflow_checks, MAX_RETRIES, businesses, latest_payload_index, id,
                   holder, index, retry, invocations>>

\* Mutant of Store: the reset is forgotten.
StoreNothing(s) ==
    /\ pc[s] = "accepted"
    /\ pc' = [pc EXCEPT ![s] = "stored"]
    /\ UNCHANGED <<transactions, overflow_checks, MAX_RETRIES, businesses, lockOwner, lockWaiters, id,
                   holder, index, retry, result, invocations, arrival,
                   latest_payload_index>>

\* Lines 129-131: latest_payload_index.store(0).
Store(s) ==
    /\ pc[s] = "accepted"
    /\ latest_payload_index' = [latest_payload_index EXCEPT ![holder[s]] = 0]
    /\ pc' = [pc EXCEPT ![s] = "stored"]
    /\ UNCHANGED <<transactions, overflow_checks, MAX_RETRIES, businesses, lockOwner, lockWaiters, id,
                   holder, index, retry, result, invocations, arrival>>

\* Mutant of ReturnOk: an accepted value is returned as Err(Cancelled).
ReturnOkCancelled(s) ==
    /\ pc[s] = "stored"
    /\ Leave(s, "Cancelled")
    /\ UNCHANGED <<transactions, overflow_checks, MAX_RETRIES, businesses, latest_payload_index, id,
                   holder, index, retry, invocations>>

\* Line 132: return Ok(result); the guard is dropped.
ReturnOk(s) ==
    /\ pc[s] = "stored"
    /\ Leave(s, "Ok")
    /\ UNCHANGED <<transactions, overflow_checks, MAX_RETRIES, businesses, latest_payload_index, id,
                   holder, index, retry, invocations>>

\* The caller of a finished call calls run again: the call's locals are gone.
Recall(s) ==
    /\ pc[s] \in {"done", "panicked"}
    /\ pc' = [pc EXCEPT ![s] = "idle"]
    /\ id' = [id EXCEPT ![s] = "-"]
    /\ holder' = [holder EXCEPT ![s] = NoHolder]
    /\ index' = [index EXCEPT ![s] = 0]
    /\ retry' = [retry EXCEPT ![s] = 0]
    /\ result' = [result EXCEPT ![s] = "-"]
    /\ invocations' = [invocations EXCEPT ![s] = 0]
    /\ UNCHANGED <<transactions, overflow_checks, MAX_RETRIES, businesses, latest_payload_index,
                   lockOwner, lockWaiters, arrival>>

\* The steps of a call after its submission.
Run(s) ==
    \/ LockRequest(s)
    \/ Invoke(s)
    \/ BodyCheck(s)
    \/ WorkOk(s)
    \/ WorkRetry(s)
    \/ WorkCancelled(s)
    \/ Store(s)
    \/ ReturnOk(s)

\* MaxSubs calls of run on one framework, on any keys, interleaved in any way.
Next ==
    \E s \in Sub :
        \/ \E k \in Key : Submit(s, k)
        \/ Run(s)

Spec == Init /\ [][Next]_vars

\* Fair scheduling: the executor polls every task that can go on, the lock is handed
\* over by the unlocking step itself, and every invocation of the work returns: a
\* call that can take a step of run_with_name eventually takes one.  Nothing obliges
\* a caller to submit.
SpecFair == Init /\ [][Next]_vars /\ \A s \in Sub : WF_vars(Run(s))

\* One call, under any configured retry limit of the u8 range.
InitRetry ==
    /\ InitState
    /\ MAX_RETRIES \in 0..(U8 - 1)
    /\ fetch = NoFetch
    /\ archive = NoArchive

NextRetry ==
    \/ \E k \in Key : Submit(1, k)
    \/ Run(1)

SpecRetry == InitRetry /\ [][NextRetry]_vars

\* Key "A" over a long time: caller 1 calls run again and again, and at some point
\* a second call arrives and runs concurrently with caller 1's current call.
NextWrap ==
    \/ \E s \in Callers : Submit(s, "A")
    \/ \E s \in Callers : Run(s)
    \/ pc[2] = "idle" /\ Recall(1)

SpecWrap == Init /\ [][NextWrap]_vars

\* Calls whose work never calls check itself and never returns Err(Cancelled): every
\* invocation returns Ok(value) or Err(Retry).
NextSuccess ==
    \E s \in Sub :
        \/ \E k \in Key : Submit(s, k)
        \/ LockRequest(s)
        \/ Invoke(s)
        \/ WorkOk(s)
        \/ WorkRetry(s)
        \/ Store(s)
        \/ ReturnOk(s)

SpecSuccess == Init /\ [][NextSuccess]_vars

\* Calls whose work never calls check and returns Err(Retry) at every invocation.
NextAlwaysRetry ==
    \E s \in Sub :
        \/ \E k \in Key : Submit(s, k)
        \/ LockRequest(s)
        \/ Invoke(s)
        \/ WorkRetry(s)

SpecAlwaysRetry == Init /\ [][NextAlwaysRetry]_vars

\* check as a function of its inputs: call 1 is at the framework's check of a value
\* its work returned (line 126), with any u8 index in its context and any u8 value
\* in its key's counter, in either build.
InitCheck ==
    /\ overflow_checks \in BOOLEAN
    /\ MAX_RETRIES = 0
    /\ businesses = [k \in Key |-> IF k = "A" THEN 1 ELSE NoHolder]
    /\ \E c \in 0..(U8 - 1) : latest_payload_index = [h \in Sub |-> IF h = 1 THEN c ELSE 0]
    /\ lockOwner = [h \in Sub |-> IF h = 1 THEN 1 ELSE 0]
    /\ lockWaiters = [h \in Sub |-> <<>>]
    /\ pc = [s \in Sub |-> IF s = 1 THEN "work" ELSE "idle"]
    /\ id = [s \in Sub |-> IF s = 1 THEN "A" ELSE "-"]
    /\ holder = [s \in Sub |-> IF s = 1 THEN 1 ELSE NoHolder]
    /\ \E i \in 0..(U8 - 1) : index = [s \in Sub |-> IF s = 1 THEN i ELSE 0]
    /\ retry = [s \in Sub |-> 0]
    /\ result = [s \in Sub |-> "-"]
    /\ invocations = [s \in Sub |-> IF s = 1 THEN 1 ELSE 0]
    /\ arrival = [h \in Sub |-> IF h = 1 THEN <<1>> ELSE <<>>]
    /\ fetch = NoFetch
    /\ archive = NoArchive

NextCheck == WorkOk(1)

SpecCheck == InitCheck /\ [][NextCheck]_vars

\* ------------------------------------------------------------ transactions

\* fetch_artifacts(owner, repo, run_id, count) runs and returns.
FetchArtifacts ==
    /\ fetch.stage = "called"
    /\ fetch' = [fetch EXCEPT
                    !.stage = "returned",
                    !.outcome = fetch_artifacts(fetch.count, fetch.sent, fetch.parsed,
                                                fetch.total_count)]
    /\ UNCHANGED <<framework, archive>>

\* fetch_artifact(owner, repo, run_id) runs and returns: the count is Some(1).
FetchArtifact ==
    /\ fetch.stage = "called"
    /\ fetch' = [fetch EXCEPT
                    !.stage = "returned",
                    !.count = <<1>>,
                    !.outcome = fetch_artifact(fetch.sent, fetch.parsed,
                                               fetch.total_count, fetch.artifacts)]
    /\ UNCHANGED <<framework, archive>>

InitFetch ==
    /\ InitState
    /\ MAX_RETRIES \in 0..MaxRetryLimit
    /\ fetch \in FetchCalls
    /\ archive = NoArchive

NextFetch == FetchArtifacts \/ FetchArtifact

SpecFetch == InitFetch /\ [][NextFetch]_vars

\* download_and_extract_archive, line 31: download_artifact(&artifact).await; the
\* Retry and Stop arms return at once.
Download ==
    /\ archive.stage = "called"
    /\ LET st == download_artifact(archive.request)
       IN  archive' = IF st = "Success"
                      THEN [archive EXCEPT !.stage = "streaming"]
                      ELSE [archive EXCEPT !.stage = "returned", !.outcome = st]
    /\ UNCHANGED <<framework, fetch>>

\* Line 34: extract(stream, digest, &path).  extract_archive removes the target,
\* creates it again and writes the entries; when it fails, what it wrote stays.
Extract ==
    /\ archive.stage = "streaming"
    /\ archive' = [archive EXCEPT
                      !.stage = "extracted",
                      !.dir = IF archive.extracted THEN "complete" ELSE "partial",
                      !.case = extract(archive.extracted, archive.digest,
                                       archive.computed)]
    /\ UNCHANGED <<framework, fetch>>

\* Line 37: cleanup(artifact, case, &path): remove_dir_all unless Extracted.
Cleanup ==
    /\ archive.stage = "extracted"
    /\ archive' = [archive EXCEPT
                      !.stage = "cleaned",
                      !.dir = IF archive.case = "Extracted" THEN @ ELSE "absent"]
    /\ UNCHANGED <<framework, fetch>>

\* Line 39: State::Success(()), whatever the case was.
ReturnSuccess ==
    /\ archive.stage = "cleaned"
    /\ archive' = [archive EXCEPT !.stage = "returned", !.outcome = "Success"]
    /\ UNCHANGED <<framework, fetch>>

InitArchive ==
    /\ InitState
    /\ MAX_RETRIES \in 0..MaxRetryLimit
    /\ fetch = NoFetch
    /\ archive \in ArchiveCalls

NextArchive == Download \/ Extract \/ Cleanup \/ ReturnSuccess

SpecArchive == InitArchive /\ [][NextArchive]_vars

\* ----------------------------------------------------------------- claims

\* s is between acquiring its key's lock and returning.
Holding(s) == pc[s] \in {"locked", "work", "accepted", "stored"}

\* s has returned or has been unwound by a panic.
Finished(s) == pc[s] \in {"done", "panicked"}

\* What check returns to s if s evaluates it in this state.
CheckNow(s) == check(index[s], latest_payload_index[holder[s]], overflow_checks)

\* C1: mutual exclusion per key: no two calls for the same key are between
\* acquiring the key's lock and returning at the same time.
C1_MutualExclusion ==
    \A s, t \in Sub : (s # t /\ Holding(s) /\ Holding(t)) => id[s] # id[t]

\* Two calls for one key overlap: one runs its work body, the other is suspended.
C1_Witness ==
    \E s, t \in Sub : s # t /\ id[s] = id[t] /\ pc[s] = "work" /\ pc[t] = "waiting"

\* C2: latest-wins: of three calls for one key with generations g0 < g1 < g2, the
\* two older ones get Cancelled from every check they evaluate once the third has
\* been submitted.
C2_LatestWins ==
    \A s, t, u \in Sub :
        ( /\ s < t /\ t < u
          /\ id[s] = id[t] /\ id[t] = id[u]
          /\ index[s] < index[t] /\ index[t] < index[u] )
        => /\ pc[s] = "work" => CheckNow(s) = "Cancelled"
           /\ pc[t] = "work" => CheckNow(t) = "Cancelled"

\* C3: an older call never succeeds after a younger one completed: once a call that
\* bumped the generation later has returned Ok, every check of the older call
\* returns Cancelled.
C3_OlderCancelledAfterYounger ==
    \A x, y \in Sub :
        (x < y /\ id[x] = id[y] /\ result[y] = "Ok" /\ pc[x] = "work")
        => CheckNow(x) = "Cancelled"

\* C4: the latest call is never judged stale: a call that no other call for its
\* key has followed gets Ok from every check it evaluates.
C4_LatestNeverStale ==
    \A s \in Sub :
        (pc[s] = "work" /\ \A t \in Sub : t > s => id[t] # id[s])
        => CheckNow(s) = "Ok"

\* C5: retry budget: under every MAX_RETRIES of the u8 range a call invokes its work
\* at most MAX_RETRIES + 1 times, gives up only after exactly MAX_RETRIES + 1
\* invocations, and the retry accounting itself never ends the call otherwise.
C5_ExactlyMaxPlusOne ==
    \A s \in Sub :
        /\ invocations[s] <= MAX_RETRIES + 1
        /\ result[s] = "Retry" => invocations[s] = MAX_RETRIES + 1
        /\ pc[s] # "panicked"

\* s gave up: retry_if_possible pushed its retry counter past MAX_RETRIES.
Exhausted(s) == pc[s] = "done" /\ retry[s] > MAX_RETRIES

\* C6 (as claimed): a call that exhausted its retry budget returns the error
\* ExceededMaxRetries.
C6_ReturnsExceededMaxRetries ==
    \A s \in Sub : Exhausted(s) => result[s] = "ExceededMaxRetries"

\* C6 (amended): a call that exhausted its retry budget returns Err(Retry), the tag
\* of its last work outcome, which is not Cancelled; and run returns Err(Retry) in
\* no other case.
C6_ExhaustionReturnsRetry ==
    \A s \in Sub :
        /\ Exhausted(s) => result[s] = "Retry" /\ result[s] # "Cancelled"
        /\ result[s] = "Retry" => Exhausted(s)

\* One call retried once and then gave up, another call was cancelled.
C6_Witness ==
    \E s, t \in Sub :
        /\ Exhausted(s) /\ invocations[s] = 2 /\ result[s] = "Retry"
        /\ result[t] = "Cancelled"

\* C7 (as claimed): at the moment a call returns Ok its key's generation counter
\* is exactly 0, under every interleaving.
C7_ZeroAtReturn ==
    [][\A s \in Sub :
          (pc[s] = "stored" /\ pc'[s] = "done")
          => latest_payload_index'[holder[s]] = 0]_vars

\* C7 (amended): a call returns Ok only after it has stored 0 into its key's
\* counter; the return itself leaves the counters alone; between the store and the
\* return the counter changes only by the increments of arriving submissions; and
\* a submission receives the counter's current value as its index.
C7_ResetBeforeReturn ==
    [][\A s \in Sub :
          /\ (pc[s] # "stored" /\ pc'[s] = "stored")
             => latest_payload_index'[holder[s]] = 0
          /\ (result[s] # "Ok" /\ result'[s] = "Ok")
             => pc[s] = "stored" /\ latest_payload_index' = latest_payload_index
          /\ (pc[s] = "stored" /\ pc'[s] = "stored")
             => latest_payload_index'[holder[s]] \in
                    {latest_payload_index[holder[s]],
                     (latest_payload_index[holder[s]] + 1) % U8}
          /\ (pc[s] = "idle" /\ pc'[s] = "bumped")
             => index'[s] = latest_payload_index[holder'[s]]]_vars

\* A submission has bumped the counter between a successful call's store and its
\* return: it received index 0 and the counter is 1 when the call returns.
C7_Witness ==
    \E s, t \in Sub :
        /\ s # t /\ holder[s] = holder[t]
        /\ pc[s] = "stored" /\ pc[t] = "bumped"
        /\ index[t] = 0 /\ latest_payload_index[holder[s]] = 1

\* A step submits a call to holder h / stores 0 into h's counter.
SubmitsTo(h) == \E s \in Sub : pc[s] = "idle" /\ pc'[s] = "bumped" /\ holder'[s] = h
StoresTo(h) == \E s \in Sub : holder[s] = h /\ pc[s] = "accepted" /\ pc'[s] = "stored"

\* C8 (as claimed): a submission raises its key's counter by one, a successful
\* completion sets it to 0, and nothing else changes it: in particular it never
\* decreases except by that reset.
C8_OnlyIncrementOrReset ==
    [][\A h \in Sub :
          IF SubmitsTo(h) THEN latest_payload_index'[h] = latest_payload_index[h] + 1
          ELSE IF StoresTo(h) THEN latest_payload_index'[h] = 0
          ELSE latest_payload_index'[h] = latest_payload_index[h]]_vars

\* C8 (amended): a submission raises its key's counter by one modulo 256 (at 255 it
\* wraps to 0), a successful completion sets it to 0, and every other step, among
\* them the return of Cancelled, of a rejected success and of exhausted retries,
\* leaves it unchanged.
C8_IncrementMod256OrReset ==
    [][\A h \in Sub :
          IF SubmitsTo(h)
          THEN latest_payload_index'[h] = (latest_payload_index[h] + 1) % 256
          ELSE IF StoresTo(h) THEN latest_payload_index'[h] = 0
          ELSE latest_payload_index'[h] = latest_payload_index[h]]_vars

\* The 256th submission since the last reset has wrapped the counter to 0.
C8_Witness ==
    \E s \in Sub :
        pc[s] = "bumped" /\ index[s] = 255 /\ latest_payload_index[holder[s]] = 0

\* C9: a call that has returned (Ok, Cancelled, retries exhausted) or was unwound
\* by a panic holds no lock and waits for none; a taken lock always belongs to a
\* call that is still running, and nobody waits for a free lock.
C9_LockReleased ==
    /\ \A s \in Sub : Finished(s) =>
            \A h \in Sub : lockOwner[h] # s /\ \A i \in 1..Len(lockWaiters[h]) : lockWaiters[h][i] # s
    /\ \A h \in Sub : lockOwner[h] # 0 => Holding(lockOwner[h]) /\ holder[lockOwner[h]] = h
    /\ \A h \in Sub : lockOwner[h] = 0 => lockWaiters[h] = <<>>

\* One call for a key has returned Ok, one was unwound by a panic, and a later call
\* for the same key has the lock and runs its work.
C9_Witness ==
    \E s, t, u \in Sub :
        /\ id[s] = id[t] /\ id[t] = id[u]
        /\ pc[s] = "panicked"
        /\ pc[t] = "done" /\ result[t] = "Ok"
        /\ pc[u] = "work"

\* C10: FIFO per key: a call whose lock() came after the lock() of a call for the
\* same key that has not finished yet is still suspended and has not invoked its work.
C10_Fifo ==
    \A h \in Sub : \A j \in 2..Len(arrival[h]) :
        pc[arrival[h][j]] = "waiting" /\ invocations[arrival[h][j]] = 0

\* The call that bumped the generation later called lock() first and runs its work
\* while the older one waits behind it.
C10_Witness ==
    \E h \in Sub :
        /\ Len(arrival[h]) >= 2
        /\ arrival[h][1] > arrival[h][2]
        /\ pc[arrival[h][1]] = "work"

\* C11: Cancelled is terminal and consumes no retry: the step in which a call's work
\* (or the check on its result) yields Cancelled ends the call with Err(Cancelled)
\* at once, with its retry counter and its number of invocations unchanged; after
\* that the call invokes nothing and its result stays; every invocation of such a
\* call but the last one was a Retry charged to the budget.
C11_CancelledTerminal ==
    [][\A s \in Sub :
          /\ (pc[s] = "work" /\ result'[s] = "Cancelled")
             => /\ pc'[s] = "done"
                /\ retry'[s] = retry[s]
                /\ invocations'[s] = invocations[s]
                /\ invocations[s] = retry[s] + 1
          /\ result[s] = "Cancelled"
             => /\ pc[s] = "done" /\ pc'[s] = "done"
                /\ result'[s] = "Cancelled"
                /\ retry'[s] = retry[s]
                /\ invocations'[s] = invocations[s]]_vars

\* A call was cancelled at its first invocation although one retry was allowed, and
\* another was cancelled at its second invocation, after one retry.
C11_Witness ==
    \E s, t \in Sub :
        /\ MAX_RETRIES = 1
        /\ result[s] = "Cancelled" /\ invocations[s] = 1 /\ retry[s] = 0
        /\ result[t] = "Cancelled" /\ invocations[t] = 2 /\ retry[t] = 1

\* C12: a stale success is rejected: a value the work returns is accepted only when
\* the framework's check on it says Ok; when the check says Cancelled the call ends
\* with Err(Cancelled) in that step, not with the value, the counters are not reset,
\* no retry is charged and the work is not invoked again.
C12_StaleSuccessRejected ==
    [][\A s \in Sub :
          /\ (pc[s] = "work" /\ pc'[s] = "accepted") => CheckNow(s) = "Ok"
          /\ (pc[s] = "work" /\ CheckNow(s) = "Cancelled" /\ WorkOk(s))
             => /\ pc'[s] = "done" /\ result'[s] = "Cancelled"
                /\ latest_payload_index' = latest_payload_index
                /\ retry' = retry
                /\ invocations' = invocations
          /\ result[s] = "Cancelled"
             => /\ pc'[s] = "done" /\ result'[s] = "Cancelled"
                /\ invocations'[s] = invocations[s]]_vars

\* The work of a call returned Ok at its first invocation with a retry left, the
\* check found the value stale, and the call returned Err(Cancelled); its key's
\* counter still has the value that made it stale.
C12_Witness ==
    \E s \in Sub :
        /\ MAX_RETRIES = 1
        /\ result[s] = "Cancelled" /\ invocations[s] = 1 /\ retry[s] = 0
        /\ latest_payload_index[holder[s]] > index[s] + 1

\* C13: check is exact on every pair of u8 values: applied with index i while the
\* counter holds c, it answers Cancelled exactly when c > i + 1 (as integers) and Ok
\* otherwise, and it never fails; in particular not when c is 0.
C13_CheckExact ==
    \A s \in Sub :
        /\ pc[s] = "accepted" => ~(latest_payload_index[holder[s]] > index[s] + 1)
        /\ pc[s] = "done" =>
               result[s] = "Cancelled" /\ latest_payload_index[holder[s]] > index[s] + 1
        /\ pc[s] # "panicked"

C15_Registry ==
    [][/\ \A s \in Sub : pc'[s] # "idle" => holder'[s] = businesses'[id'[s]]
       /\ \A s, t \in Sub :
              (pc'[s] # "idle" /\ pc'[t] # "idle" /\ id'[s] = id'[t])
              => holder'[s] = holder'[t]
       /\ \A k \in Key :
              /\ businesses[k] # NoHolder => businesses'[k] = businesses[k]
              /\ businesses'[k] # businesses[k]
                 => \E s \in Sub :
                        /\ pc[s] = "idle" /\ pc'[s] = "bumped"
                        /\ id'[s] = k /\ holder'[s] = businesses'[k]]_vars

\* Two calls for key "A", the first of which has returned, share the holder that
\* the registry still has for "A", and a call for "B" has another holder.
C15_Witness ==
    \E s, t, u \in Sub :
        /\ s < t /\ id[s] = "A" /\ id[t] = "A" /\ id[u] = "B"
        /\ pc[s] = "done" /\ pc[t] = "work"
        /\ holder[s] = businesses["A"] /\ holder[t] = businesses["A"]
        /\ holder[u] = businesses["B"] /\ businesses["B"] # businesses["A"]

\* C16: outcome of the fetch operation: a response that parses, with a non-zero
\* artifact count equal to the expected one (or with no expected count), gives
\* Success; a connect or timeout error gives Retry; every other failure (another
\* request error, a body that cannot be parsed, zero artifacts, fewer or more
\* artifacts than expected) gives Cancelled.
C16_FetchOutcomes ==
    fetch.stage = "returned" =>
        fetch.outcome =
            IF ~fetch.sent.ok
            THEN IF fetch.sent.is_connect \/ fetch.sent.is_timeout
                 THEN "Retry" ELSE "Cancelled"
            ELSE IF ~fetch.parsed THEN "Cancelled"
            ELSE IF fetch.total_count = 0 THEN "Cancelled"
            ELSE IF fetch.count = <<>> \/ fetch.count = <<fetch.total_count>>
                 THEN "Success" ELSE "Cancelled"

\* C17: download-and-extract: when the digest of the downloaded bytes differs from
\* the artifact's digest, or the extraction fails, the output directory is removed
\* and the operation returns a failure that is neither Success nor Retry.
C17_MismatchIsFailure ==
    (archive.stage = "returned" /\ archive.case \in {"HashUnmatch", "Failed"})
    => /\ archive.dir = "absent"
       /\ archive.outcome \notin {"Success", "Retry"}

\* C18: retries reuse the context: the step that goes from a Retry outcome to the
\* next attempt keeps the call's index, bumps no counter and keeps the lock; from
\* its first invocation until it finishes a call owns its key's lock with the same
\* index, and meanwhile no other call for that key invokes its work.
C18_RetriesReuseContext ==
    [][\A s \in Sub :
          /\ (pc[s] = "work" /\ pc'[s] = "locked")
             => /\ index'[s] = index[s] /\ holder'[s] = holder[s]
                /\ latest_payload_index' = latest_payload_index
                /\ lockOwner[holder[s]] = s /\ lockOwner'[holder[s]] = s
                /\ retry'[s] = retry[s] + 1
          /\ (invocations[s] >= 1 /\ ~Finished(s))
             => /\ lockOwner[holder[s]] = s
                /\ index'[s] = index[s]
                /\ ~(Finished(s))' => lockOwner'[holder[s]] = s
                /\ \A t \in Sub :
                       (t # s /\ holder[t] = holder[s])
                       => invocations'[t] = invocations[t]]_vars

\* A call is in its second attempt, with the index it was given, while a later
\* call for the same key, which has bumped the counter, waits for the lock.
C18_Witness ==
    \E s, t \in Sub :
        /\ s # t /\ holder[s] = holder[t]
        /\ pc[s] = "work" /\ invocations[s] = 2 /\ retry[s] = 1
        /\ pc[t] = "waiting" /\ index[t] > index[s]
        /\ latest_payload_index[holder[s]] > index[s] + 1

\* C19: no preemption: a call whose work is running owns its key's lock, and no
\* other call for that key is past lock(); it stops running its work only by a
\* step of its own, in which the work returns; every step of another call, among
\* them the submissions that make it stale, leaves it running with the lock and
\* invokes no work for that key.
C19_NoPreemption ==
    [][\A s \in Sub :
          pc[s] = "work" =>
              /\ lockOwner[holder[s]] = s
              /\ \A t \in Sub : (t # s /\ holder[t] = holder[s]) => ~Holding(t)
              /\ pc'[s] # "work"
                 => BodyCheck(s) \/ WorkOk(s) \/ WorkRetry(s) \/ WorkCancelled(s)
              /\ pc'[s] = "work"
                 => /\ lockOwner'[holder[s]] = s
                    /\ \A t \in Sub :
                           (t # s /\ holder'[t] = holder[s])
                           => invocations'[t] = invocations[t]]_vars

\* The work of a call runs although two later submissions for its key have made it
\* stale; they wait for the lock and have invoked nothing.
C19_Witness ==
    \E s, t, u \in Sub :
        /\ s < t /\ t < u /\ holder[s] = holder[t] /\ holder[t] = holder[u]
        /\ pc[s] = "work" /\ CheckNow(s) = "Cancelled"
        /\ pc[t] = "waiting" /\ pc[u] = "waiting"
        /\ invocations[t] = 0 /\ invocations[u] = 0

\* C20: check never underflows: in every reachable state in which a call can
\* evaluate check (its work is running: the body's check or the framework's check
\* of the returned value comes next), its key's counter is at least 1, and no call
\* has been unwound by a panic.
C20_CounterPositiveAtCheck ==
    \A s \in Sub :
        /\ pc[s] = "work" => latest_payload_index[holder[s]] >= 1
        /\ pc[s] # "panicked"

\* s has executed fetch_add and has neither returned nor been unwound.
Live(s) == pc[s] \notin {"idle", "done", "panicked"}

\* C21: indices identify the live calls of a key in arrival order: of two calls for
\* one key that are both in flight (far fewer than 256 of them), the one that
\* bumped the counter later holds the larger index; in particular their indices
\* differ.
C21_LiveIndicesOrdered ==
    \A s, t \in Sub :
        (s < t /\ Live(s) /\ Live(t) /\ holder[s] = holder[t])
        => index[s] < index[t]

\* C22: progress: under fair scheduling, with work invocations that all return,
\* every submitted call eventually returns (Ok, Err(Cancelled) or Err(Retry)).
C22_Progress ==
    \A s \in Sub : (pc[s] # "idle") ~> (pc[s] = "done")

\* C23: keys are independent: calls for different keys have different holders; a
\* step in which a call moves changes the counter, the lock owner and the wait
\* queue of no holder but its own, and moves no call of another key; and a call is
\* suspended only behind a lock owner of its own key, so that what the calls for
\* other keys do, or fail to do, never holds it up.
C23_KeysIndependent ==
    [][\A s \in Sub :
          pc'[s] # pc[s] =>
              LET h == holder'[s]
              IN  /\ \A t \in Sub :
                         /\ (pc'[t] # "idle" /\ id'[t] # id'[s]) => holder'[t] # h
                         /\ pc'[t] # pc[t] => id'[t] = id'[s]
                  /\ latest_payload_index' =
                         [latest_payload_index EXCEPT ![h] = latest_payload_index'[h]]
                  /\ lockOwner' = [lockOwner EXCEPT ![h] = lockOwner'[h]]
                  /\ lockWaiters' = [lockWaiters EXCEPT ![h] = lockWaiters'[h]]
                  /\ pc'[s] = "waiting" =>
                         lockOwner'[h] # 0 /\ id'[lockOwner'[h]] = id'[s]]_vars

\* A call for key "B", submitted after them, has run and returned Ok while a call
\* for key "A" is still executing its work and another one waits for A's lock.
C23_Witness ==
    \E s, t, u \in Sub :
        /\ s < u /\ t < u
        /\ id[s] = "A" /\ pc[s] = "work"
        /\ id[t] = "A" /\ pc[t] = "waiting"
        /\ id[u] = "B" /\ pc[u] = "done" /\ result[u] = "Ok"

\* C24: a Retry outcome is not checked for staleness: a call whose work returns
\* Err(Retry) at every invocation, without calling check, never ends with
\* Err(Cancelled) and never fails in check, however many later submissions have
\* superseded it: it is invoked again as long as budget remains and ends, after
\* exactly MAX_RETRIES + 1 invocations, with Err(Retry).
C24_RetryNotChecked ==
    \A s \in Sub :
        /\ result[s] \in {"-", "Retry"}
        /\ pc[s] # "panicked"
        /\ invocations[s] <= MAX_RETRIES + 1
        /\ pc[s] = "done" => invocations[s] = MAX_RETRIES + 1 /\ result[s] = "Retry"

\* A call that two later submissions for its key have superseded has been invoked
\* twice, with one retry allowed, and has returned Err(Retry).
C24_Witness ==
    \E s \in Sub :
        /\ MAX_RETRIES = 1
        /\ pc[s] = "done" /\ result[s] = "Retry" /\ invocations[s] = 2
        /\ CheckNow(s) = "Cancelled"
        /\ latest_payload_index[holder[s]] = index[s] + 3

====
